---- MODULE Spec2Model ----
(***************************************************************************)
(* A model of proxy_handler of src/proxy.py (cwilko/video-proxy): one      *)
(* coroutine per inbound GET/HEAD request, stepped from await to await.    *)
(* The process-wide configuration is USE_UPSTREAM and UPSTREAM_PROXY_URL;  *)
(* everything else is per request and lives in rq[r].                      *)
(***************************************************************************)
EXTENDS Integers, Sequences, FiniteSets, TLC

VARIABLES USE_UPSTREAM, UPSTREAM_PROXY_URL, rq

vars == <<USE_UPSTREAM, UPSTREAM_PROXY_URL, rq>>

(***************************************************************************)
(* Bounds of the model.                                                    *)
(***************************************************************************)
\* Largest upstream body, in blocks.
MaxBody == 3
\* Number of request slots; Spec runs one request, the others stay idle.
MaxReqs == 2

Reqs == 1..MaxReqs

(***************************************************************************)
(* Values.                                                                 *)
(***************************************************************************)
\* Python's None (an absent query parameter, proxy=None, a missing header).
None == "<None>"

\* The chunk size handed to iter_chunked, in bytes.
ChunkSize == 8192
\* The model moves the body in blocks of half a chunk.
BlockSize == ChunkSize \div 2
ChunkBlocks == ChunkSize \div BlockSize

DefaultUserAgent == "Mozilla/5.0 (compatible; HTTPProxy/1.0)"
\* os.getenv's default for UPSTREAM_PROXY_URL.
DefaultProxyUrl == "http://192.168.1.79:3128"

\* bool(x) of a str-or-None value: None and the empty string are falsy.
TruthyNoneOnly(x) == x # None
Truthy(x) == x # None /\ x # ""

\* str.lower() on the header names and the words of error texts in use.
Lower(w) ==
  CASE w = "Content-Type" -> "content-type"
    [] w = "Content-Length" -> "content-length"
    [] w = "CONTENT-RANGE" -> "content-range"
    [] w = "Accept-Ranges" -> "accept-ranges"
    [] w = "Last-Modified" -> "last-modified"
    [] w = "ETag" -> "etag"
    [] w = "Cache-Control" -> "cache-control"
    [] w = "Expires" -> "expires"
    [] w = "Set-Cookie" -> "set-cookie"
    [] w = "X-Cache" -> "x-cache"
    [] w = "X-Cache-Lookup" -> "x-cache-lookup"
    [] w = "Age" -> "age"
    [] w = "Server" -> "server"
    [] w = "Access-Control-Allow-Origin" -> "access-control-allow-origin"
    [] w = "User-Agent" -> "user-agent"
    [] w = "Range" -> "range"
    [] w = "Referer" -> "referer"
    [] w = "Cookie" -> "cookie"
    [] w = "Cannot" -> "cannot"
    [] w = "Connection" -> "connection"
    [] w = "Broken" -> "broken"
    [] w = "Response" -> "response"
    [] w = "Errno" -> "errno"
    [] OTHER -> w

\* A header mapping as the transport holds it: a sequence of <<name, value>>
\* pairs, names in the case the peer sent them.
HeaderNames(hs) == {Lower(hs[i][1]) : i \in DOMAIN hs}

\* `name in headers` on a case-insensitive multidict.
HeaderIn(hs, name) == \E i \in DOMAIN hs : Lower(hs[i][1]) = Lower(name)

\* headers[name] / headers.get(name): the first value stored under the name.
HeaderGet(hs, name) ==
  IF HeaderIn(hs, name)
  THEN LET i == CHOOSE j \in DOMAIN hs :
                  /\ Lower(hs[j][1]) = Lower(name)
                  /\ \A k \in DOMAIN hs : Lower(hs[k][1]) = Lower(name) => j <= k
       IN hs[i][2]
  ELSE None

\* urllib.parse.unquote on the target URLs in use.
unquote(u) ==
  CASE u = "http%3A%2F%2Fexample.com%2Ffile.mp4" -> "http://example.com/file.mp4"
    [] OTHER -> u

(***************************************************************************)
(* Exceptions the awaited calls can raise: the class and str(e) in words.  *)
(***************************************************************************)
NoExc == [type |-> "none", text |-> <<>>]

\* aiohttp's writer on a closing transport (resp.prepare, resp.write, write_eof).
ExcReset == [type |-> "ConnectionResetError",
             text |-> <<"Cannot", "write", "to", "closing", "transport">>]
ExcPipe == [type |-> "BrokenPipeError", text |-> <<"[", "Errno", "32", "]", "Broken", "pipe">>]
\* The handler's task is cancelled (the caller went away while it awaited).
ExcCancel == [type |-> "CancelledError", text |-> <<>>]
\* ClientTimeout(total=30) expiring: asyncio.TimeoutError, whose str is empty.
ExcTimeout == [type |-> "TimeoutError", text |-> <<>>]
\* host:port of a proxy address.
HostOf(url) == IF url = DefaultProxyUrl THEN "192.168.1.79:3128" ELSE ""
\* The upstream proxy (when one is in use) or the origin refuses the
\* connection: the text names the host the transport dialled.
ExcConnector ==
  [type |-> "ClientConnectorError",
   text |-> <<"Cannot", "connect", "to", "host",
              IF USE_UPSTREAM /\ Truthy(UPSTREAM_PROXY_URL)
              THEN HostOf(UPSTREAM_PROXY_URL) ELSE "example.com:80",
              "[", "Connection", "refused", "]">>]
\* The far end resets the connection (ClientOSError).
ExcOsReset == [type |-> "ClientOSError",
               text |-> <<"[", "Errno", "104", "]", "Connection", "reset", "by", "peer">>]
ExcServerGone == [type |-> "ServerDisconnectedError", text |-> <<"Server", "disconnected">>]
\* The upstream body ends short.
ExcPayload == [type |-> "ClientPayloadError",
               text |-> <<"Response", "payload", "is", "not", "completed">>]

\* The upstream connection is gone when the body is read
\* (ClientConnectionError("Connection closed")).
ExcConnClosed == [type |-> "ClientConnectionError", text |-> <<"Connection", "closed">>]
\* A broken pipe reported by the transport as a ClientOSError, which is not
\* a BrokenPipeError.
ExcOsPipe == [type |-> "ClientOSError", text |-> <<"[", "Errno", "32", "]", "Broken", "pipe">>]
\* A fault in the handler's own set-up code.
ExcRuntime == [type |-> "RuntimeError", text |-> <<"Session", "is", "closed">>]

\* Lines 76-97, before the inner try.
SetupExcs == {ExcRuntime}
FetchExcs == {ExcTimeout, ExcConnector, ExcOsReset, ExcServerGone, ExcCancel}
PrepareExcs == {ExcReset, ExcCancel}
\* ClientTimeout(total=30) bounds the whole operation, the reading of the
\* response body included: the timeout can also expire in the copy loop.
ReadExcs == {ExcPayload, ExcTimeout, ExcOsReset, ExcConnClosed, ExcOsPipe, ExcCancel}
WriteExcs == {ExcReset, ExcPipe, ExcCancel}

\* `phrase in str(e).lower()`, the phrase given in (lower-case) words.
Contains(e, phrase) ==
  \E i \in 1..(Len(e.text) - Len(phrase) + 1) :
    \A j \in 1..Len(phrase) : Lower(e.text[i + j - 1]) = phrase[j]

\* `except Exception` catches it: CancelledError derives from BaseException.
IsException(e) == e.type # "CancelledError"

\* except (ConnectionResetError, BrokenPipeError, asyncio.CancelledError)
InnerCaughtNoPipe(e) == e.type \in {"ConnectionResetError", "CancelledError"}
InnerCaught(e) == e.type \in {"ConnectionResetError", "BrokenPipeError", "CancelledError"}

\* "closing transport" in str(e).lower() or "connection" in str(e).lower()
InnerTextMatch(e) == Contains(e, <<"closing", "transport">>) \/ Contains(e, <<"connection">>)

\* any(term in str(proxy_error).lower() for term in [...])
OuterDisconnectLoose(e) ==
  \/ Contains(e, <<"closing", "transport">>)
  \/ Contains(e, <<"connection">>)
  \/ Contains(e, <<"broken", "pipe">>)
OuterDisconnect(e) ==
  \/ Contains(e, <<"closing", "transport">>)
  \/ Contains(e, <<"connection", "reset">>)
  \/ Contains(e, <<"broken", "pipe">>)

\* USE_UPSTREAM and ('proxy' in ... or 'connection' in ...)
ProxyConnectionError(e) ==
  USE_UPSTREAM /\ (Contains(e, <<"proxy">>) \/ Contains(e, <<"connection">>))

(***************************************************************************)
(* The outbound request: headers, proxy and TLS mode (lines 58-91).        *)
(***************************************************************************)
\* headers = {...}: the dict handed to ClientSession, built per request.
OutboundHeadersPassthrough(ch) ==
  [k \in {"User-Agent"} \cup {ch[i][1] : i \in DOMAIN ch} |->
     IF HeaderIn(ch, k) THEN HeaderGet(ch, k) ELSE DefaultUserAgent]
OutboundHeaders(ch) ==
  LET keys == {"User-Agent"}
                \cup (IF USE_UPSTREAM THEN {"Cache-Control"} ELSE {})
                \cup (IF HeaderIn(ch, "Range") THEN {"Range"} ELSE {})
                \cup (IF HeaderIn(ch, "Referer") THEN {"Referer"} ELSE {})
  IN [k \in keys |->
        CASE k = "User-Agent" ->
               IF HeaderIn(ch, "User-Agent") THEN HeaderGet(ch, "User-Agent")
               ELSE DefaultUserAgent
          [] k = "Cache-Control" -> "max-age=3600"
          [] k = "Range" -> HeaderGet(ch, "Range")
          [] k = "Referer" -> HeaderGet(ch, "Referer")]

\* proxy = UPSTREAM_PROXY_URL if USE_UPSTREAM else None
ProxyArgAlways == UPSTREAM_PROXY_URL
ProxyArg == IF USE_UPSTREAM THEN UPSTREAM_PROXY_URL ELSE None

\* connector_kwargs['ssl']: False (no verification) or the system-trust context.
ConnectorSslVerifying(proxy) == "ssl_context"
ConnectorSsl(proxy) == IF USE_UPSTREAM /\ Truthy(proxy) THEN "False" ELSE "ssl_context"

(***************************************************************************)
(* The outward response: status test, header allow-list, CORS (103-127).   *)
(***************************************************************************)
\* if response.status >= 400
IsUpstreamErrorStrict(status) == status > 400
IsUpstreamError(status) == status >= 400

headers_to_forward ==
  <<"content-type", "content-length", "content-range", "accept-ranges",
    "last-modified", "etag", "cache-control", "expires">>

\* for header in headers_to_forward: if header in response.headers: copy it.
ForwardHeadersAll(uh) ==
  [h \in HeaderNames(uh) |-> HeaderGet(uh, h)]
ForwardHeadersOnce(uh) ==
  LET keys == {headers_to_forward[i] : i \in DOMAIN headers_to_forward}
      kept == {h \in keys : HeaderIn(uh, h) /\ \A q \in Reqs : rq[q].responses = 0}
  IN [h \in kept |-> HeaderGet(uh, h)]
ForwardHeaders(uh) ==
  LET keys == {headers_to_forward[i] : i \in DOMAIN headers_to_forward}
      kept == {h \in keys : HeaderIn(uh, h)}
  IN [h \in kept |-> HeaderGet(uh, h)]

\* The four resp.headers['Access-Control-...'] assignments.
CorsHeaders ==
  [h \in {"Access-Control-Allow-Origin", "Access-Control-Allow-Headers",
          "Access-Control-Allow-Methods", "Access-Control-Expose-Headers"} |->
     CASE h = "Access-Control-Allow-Origin" -> "*"
       [] h = "Access-Control-Allow-Headers" ->
            "Origin, X-Requested-With, Content-Type, Accept, Range, User-Agent"
       [] h = "Access-Control-Allow-Methods" -> "GET, HEAD, OPTIONS"
       [] h = "Access-Control-Expose-Headers" ->
            "Content-Range, Content-Length, Accept-Ranges"]

\* web.StreamResponse(status=...), then the header assignments in order: a
\* later assignment to the same name replaces the earlier one.
BuildRespShared(up) ==
  [status |-> up.status, headers |-> CorsHeaders @@ ForwardHeaders(rq[1].origin.headers)]
BuildResp(up) == [status |-> up.status, headers |-> CorsHeaders @@ ForwardHeaders(up.headers)]

NoResp == [status |-> 0, headers |-> <<>>]

\* if not is_head_request: the copy loop is skipped for HEAD.
SkipBodyNever(method) == FALSE
SkipBody(method) == method = "HEAD"

(***************************************************************************)
(* What the handler hands back to the server.                              *)
(***************************************************************************)
NoResult == [kind |-> "none", status |-> 0, body |-> <<>>]
\* web.json_response(body, status=status)
JsonResponse(status, body) == [kind |-> "json", status |-> status, body |-> body]
\* web.Response(status=status): no body.
EmptyResponse(status) == [kind |-> "empty", status |-> status, body |-> <<>>]
\* return resp: the StreamResponse the handler has been writing.
StreamResult(resp) == [kind |-> "stream", status |-> resp.status, body |-> resp.headers]

(***************************************************************************)
(* Inputs: the caller's request and what the far end answers.              *)
(***************************************************************************)
Methods == {"GET", "HEAD"}

\* request.query.get('url'): absent, empty, or a percent-encoded URL.
TargetUrls == {None, "", "http%3A%2F%2Fexample.com%2Ffile.mp4"}

CallerHeaderSets ==
  { <<>>,
    << <<"User-Agent", "VLC/3.0">> >>,
    << <<"range", "bytes=0-1023">> >>,
    << <<"User-Agent", "VLC/3.0">>, <<"Range", "bytes=0-1023">>,
       <<"Referer", "http://ref.example/">> >>,
    << <<"Referer", "http://ref.example/">>, <<"Cookie", "sid=1">> >> }

Statuses == {200, 206, 399, 400, 404}

Reason(status) ==
  CASE status = 200 -> "OK"
    [] status = 206 -> "Partial Content"
    [] status = 400 -> "Bad Request"
    [] status = 404 -> "Not Found"
    [] OTHER -> ""

UpstreamHeaderSets ==
  { <<>>,
    << <<"Content-Type", "video/mp4">>, <<"Content-Length", "12288">> >>,
    << <<"ETag", "v1">>, <<"etag", "v2">>, <<"Set-Cookie", "k=v">> >>,
    << <<"CONTENT-RANGE", "bytes 0-1023/2048">>, <<"Accept-Ranges", "bytes">>,
       <<"X-Cache", "HIT">> >>,
    << <<"Last-Modified", "Mon">>, <<"Cache-Control", "no-cache">>,
       <<"Expires", "0">>, <<"Age", "7">> >>,
    << <<"Access-Control-Allow-Origin", "http://evil.example">>,
       <<"content-length", "0">>, <<"Server", "nginx">> >> }

Origins ==
  [status : Statuses, headers : UpstreamHeaderSets, size : 0..MaxBody]

ProxyUrls == {"", DefaultProxyUrl}

\* The body of a resource of n blocks: block i carries the value i.
Body(n) == [i \in 1..n |-> i]

\* A request as the server hands it to proxy_handler, nothing done yet.
NewRequest(method, url, ch, origin) ==
  [ pc |-> "start",
    method |-> method, target_url |-> url, headers |-> ch, origin |-> origin,
    \* the outbound side
    out_headers |-> <<>>, proxy |-> None, ssl |-> None,
    connectors |-> 0, sessions |-> 0, session_open |-> FALSE,
    fetch |-> <<>>,
    \* the upstream response
    responses |-> 0, response_open |-> FALSE, payload |-> <<>>, read_pos |-> 0,
    chunk |-> <<>>,
    \* the outward response
    resp |-> NoResp, prepared |-> 0, written |-> <<>>, eof |-> 0,
    \* how it ended; log holds the lines logged with the error mark ("X"),
    \* at debug level, or naming the proxy address
    exc |-> NoExc, exc_site |-> None, outcome |-> "running", result |-> NoResult,
    log |-> {} ]

\* A slot no request has arrived in.
IdleRequest ==
  [NewRequest("GET", None, <<>>, [status |-> 200, headers |-> <<>>, size |-> 0])
     EXCEPT !.pc = "idle"]

(***************************************************************************)
(* Leaving the two `async with` blocks, and the except clauses.            *)
(***************************************************************************)
\* __aexit__ of `async with method(...) as response` and of `async with
\* ClientSession(...)`: the upstream response and the session are released
\* however the block is left.
ReleaseNothing(s) == s
Release(s) == [s EXCEPT !.response_open = FALSE, !.session_open = FALSE]

\* The handler returns `res`.
Return(s, res) == [Release(s) EXCEPT !.pc = "done", !.outcome = "returned", !.result = res]

\* except Exception as proxy_error (lines 173-192), reached by every
\* exception raised inside the session block that nothing caught before.
\* A BaseException passes both this clause and the outer one and leaves
\* the handler.
OnProxyError(s, e) ==
  IF ~IsException(e)
  THEN [Release(s) EXCEPT !.pc = "done", !.outcome = "raised"]
  ELSE IF OuterDisconnect(e)
  THEN Return([s EXCEPT !.log = @ \cup {<<"DEBUG", "", "Connection closed during proxy operation">>}],
              EmptyResponse(499))
  ELSE Return([s EXCEPT !.log = @ \cup {<<"INFO", "X", "Proxy error">>}
                                 \cup (IF ProxyConnectionError(e)
                                       THEN {<<"INFO", "X", "upstream proxy is required but inaccessible">>}
                                       ELSE {})],
              JsonResponse(500,
                [error |-> "Proxy request failed",
                 details |-> e.text,
                 upstreamProxy |-> IF USE_UPSTREAM THEN UPSTREAM_PROXY_URL ELSE "disabled"]))

\* except Exception as e (lines 194-196), reached by an exception raised
\* outside the inner try: a generic 500, the detail only in the log.
OnHandlerErrorDetailed(s, e) ==
  Return([s EXCEPT !.log = @ \cup {<<"INFO", "X", "Handler error", e.text>>}],
         JsonResponse(500, [error |-> "Internal server error", details |-> e.text]))
OnHandlerError(s, e) ==
  IF ~IsException(e)
  THEN [Release(s) EXCEPT !.pc = "done", !.outcome = "raised"]
  ELSE Return([s EXCEPT !.log = @ \cup {<<"INFO", "X", "Handler error", e.text>>}],
              JsonResponse(500, [error |-> "Internal server error"]))

\* The two except clauses around the copy loop (lines 160-168).
OnStreamError(s, e) ==
  IF InnerCaught(e)
  THEN Return([s EXCEPT !.log = @ \cup {<<"DEBUG", "", "Client disconnected during streaming">>}],
              StreamResult(s.resp))
  ELSE IF IsException(e) /\ InnerTextMatch(e)
  THEN Return([s EXCEPT !.log = @ \cup {<<"DEBUG", "", "Connection closed during streaming">>}],
              StreamResult(s.resp))
  ELSE OnProxyError(s, e)

\* The exception e raised by the await at `site`.
Raised(s, e, site) == [s EXCEPT !.exc = e, !.exc_site = site]

(***************************************************************************)
(* The steps of proxy_handler.                                             *)
(***************************************************************************)
Step(r, new) ==
  /\ rq' = [rq EXCEPT ![r] = new]
  /\ UNCHANGED <<USE_UPSTREAM, UPSTREAM_PROXY_URL>>

\* Lines 39-97: read the request, reject a missing url, else build the
\* outbound headers, the connector and the session.
Begin(r) ==
  LET s == rq[r] IN
  /\ s.pc = "start"
  /\ IF ~Truthy(s.target_url)
     THEN Step(r, [s EXCEPT !.pc = "done", !.outcome = "returned",
                            !.log = @ \cup {<<"INFO", "X", "Missing URL parameter">>},
                            !.result = JsonResponse(400, [error |-> "Missing url parameter"])])
     ELSE Step(r, [s EXCEPT !.pc = "fetch",
                            !.log = @ \cup (IF USE_UPSTREAM
                                            THEN {<<"INFO", "", "Routing through upstream proxy", UPSTREAM_PROXY_URL>>}
                                            ELSE {}),
                            !.out_headers = OutboundHeaders(s.headers),
                            !.proxy = ProxyArg,
                            !.ssl = ConnectorSsl(ProxyArg),
                            !.connectors = @ + 1,
                            !.sessions = @ + 1,
                            !.session_open = TRUE])

\* Lines 52-97 raise (the connector or the session cannot be set up): no
\* session was entered, and the outer except clause answers.
SetupFail(r) ==
  LET s == rq[r] IN
  /\ s.pc = "start"
  /\ Truthy(s.target_url)
  /\ \E e \in SetupExcs : Step(r, OnHandlerError(Raised(s, e, "setup"), e))

\* The request the transport is asked to make (line 102).
FetchCall(s) ==
  [method |-> IF s.method = "HEAD" THEN "HEAD" ELSE "GET",
   url |-> unquote(s.target_url), proxy |-> s.proxy, ssl |-> s.ssl,
   headers |-> s.out_headers]

\* Line 102 answers, then lines 103-151: an upstream status >= 400 becomes a
\* JSON error; otherwise the outward response is built, up to resp.prepare.
Fetch(r) ==
  LET s == rq[r]
      up == s.origin
      got == [s EXCEPT !.fetch = Append(@, FetchCall(s)),
                       !.responses = @ + 1,
                       !.response_open = TRUE,
                       \* the answer to a HEAD request carries no payload
                       !.payload = IF s.method = "HEAD" THEN <<>> ELSE Body(up.size)]
  IN
  /\ s.pc = "fetch"
  /\ IF IsUpstreamError(up.status)
     THEN Step(r, Return([got EXCEPT !.log = @ \cup {<<"INFO", "X", "Upstream error">>}],
                         JsonResponse(up.status,
                           [error |-> <<"Upstream error:", up.status, Reason(up.status)>>])))
     ELSE Step(r, [got EXCEPT !.pc = "prepare", !.resp = BuildResp(up)])

\* Line 102 raises.
FetchFailRetry(r) ==
  LET s == rq[r] IN
  /\ s.pc = "fetch"
  /\ Len(s.fetch) < 2
  /\ \E e \in FetchExcs :
       Step(r, Raised([s EXCEPT !.fetch = Append(@, FetchCall(s))], e, "fetch"))

FetchFail(r) ==
  LET s == rq[r] IN
  /\ s.pc = "fetch"
  /\ \E e \in FetchExcs :
       Step(r, OnProxyError(Raised([s EXCEPT !.fetch = Append(@, FetchCall(s))], e, "fetch"), e))

\* Line 153: await resp.prepare(request) writes the status line and headers.
PrepareNoFlush(r) ==
  LET s == rq[r] IN
  /\ s.pc = "prepare"
  /\ Step(r, [s EXCEPT !.pc = IF SkipBody(s.method) THEN "eof" ELSE "read"])

Prepare(r) ==
  LET s == rq[r] IN
  /\ s.pc = "prepare"
  /\ Step(r, [s EXCEPT !.prepared = @ + 1,
                       !.pc = IF SkipBody(s.method) THEN "eof" ELSE "read"])

PrepareFail(r) ==
  LET s == rq[r] IN
  /\ s.pc = "prepare"
  /\ \E e \in PrepareExcs : Step(r, OnProxyError(Raised(s, e, "prepare"), e))

\* Line 158: the iterator yields the next chunk, of at most ChunkSize bytes,
\* or ends the loop at the end of the payload.
ReadChunk(r) ==
  LET s == rq[r]
      left == Len(s.payload) - s.read_pos
  IN
  /\ s.pc = "read"
  /\ IF left = 0
     THEN Step(r, [s EXCEPT !.pc = "eof"])
     ELSE \E k \in 1..ChunkBlocks :
            /\ k <= left
            /\ Step(r, [s EXCEPT !.pc = "write",
                                 !.chunk = SubSeq(s.payload, s.read_pos + 1, s.read_pos + k),
                                 !.read_pos = @ + k])

ReadFail(r) ==
  LET s == rq[r] IN
  /\ s.pc = "read"
  /\ \E e \in ReadExcs : Step(r, OnStreamError(Raised(s, e, "read"), e))

\* Line 159: await resp.write(chunk).
WriteChunkTwice(r) ==
  LET s == rq[r] IN
  /\ s.pc = "write"
  /\ Step(r, [s EXCEPT !.pc = "read", !.written = @ \o s.chunk \o s.chunk, !.chunk = <<>>])

WriteChunk(r) ==
  LET s == rq[r] IN
  /\ s.pc = "write"
  /\ Step(r, [s EXCEPT !.pc = "read", !.written = @ \o s.chunk, !.chunk = <<>>])

WriteFail(r) ==
  LET s == rq[r] IN
  /\ s.pc = "write"
  /\ \E e \in WriteExcs : Step(r, OnStreamError(Raised(s, e, "write"), e))

\* Lines 170-171: await resp.write_eof(); return resp.
WriteEof(r) ==
  LET s == rq[r] IN
  /\ s.pc = "eof"
  /\ Step(r, Return([s EXCEPT !.eof = @ + 1], StreamResult(s.resp)))

WriteEofFail(r) ==
  LET s == rq[r] IN
  /\ s.pc = "eof"
  /\ \E e \in WriteExcs : Step(r, OnProxyError(Raised(s, e, "eof"), e))

(***************************************************************************)
(* The specification: one request, against every configuration.           *)
(***************************************************************************)
Init ==
  /\ USE_UPSTREAM \in BOOLEAN
  /\ UPSTREAM_PROXY_URL \in ProxyUrls
  /\ \E m \in Methods, u \in TargetUrls, ch \in CallerHeaderSets, o \in Origins :
       rq = [r \in Reqs |-> IF r = 1 THEN NewRequest(m, u, ch, o) ELSE IdleRequest]

Next ==
  \E r \in Reqs :
    \/ Begin(r)
    \/ SetupFail(r)
    \/ Fetch(r)
    \/ FetchFail(r)
    \/ Prepare(r)
    \/ PrepareFail(r)
    \/ ReadChunk(r)
    \/ ReadFail(r)
    \/ WriteChunk(r)
    \/ WriteFail(r)
    \/ WriteEof(r)
    \/ WriteEofFail(r)

Spec == Init /\ [][Next]_vars

(***************************************************************************)
(* Two requests in flight at once (or the first one alone), their steps    *)
(* interleaved in every order, over a small set of requests.               *)
(***************************************************************************)
PairInputs ==
  { NewRequest("GET", "http%3A%2F%2Fexample.com%2Ffile.mp4",
               << <<"User-Agent", "VLC/3.0">>, <<"Range", "bytes=0-1023">>,
                  <<"Referer", "http://ref.example/">> >>,
               [status |-> 206,
                headers |-> << <<"CONTENT-RANGE", "bytes 0-1023/2048">>,
                               <<"Accept-Ranges", "bytes">>, <<"X-Cache", "HIT">> >>,
                size |-> 2]),
    NewRequest("HEAD", "http%3A%2F%2Fexample.com%2Ffile.mp4",
               << <<"Referer", "http://ref.example/">>, <<"Cookie", "sid=1">> >>,
               [status |-> 200,
                headers |-> << <<"Content-Type", "video/mp4">>,
                               <<"Content-Length", "12288">> >>,
                size |-> 1]),
    NewRequest("GET", "http%3A%2F%2Fexample.com%2Ffile.mp4", <<>>,
               [status |-> 404, headers |-> <<>>, size |-> 1]),
    NewRequest("GET", "", <<>>, [status |-> 200, headers |-> <<>>, size |-> 0]) }

InitPair ==
  /\ USE_UPSTREAM \in BOOLEAN
  /\ UPSTREAM_PROXY_URL \in ProxyUrls
  /\ \E a \in PairInputs, b \in PairInputs \cup {IdleRequest} :
       rq = [r \in Reqs |-> IF r = 1 THEN a ELSE IF r = 2 THEN b ELSE IdleRequest]

SpecPair == InitPair /\ [][Next]_vars

(***************************************************************************)
(* Properties.                                                             *)
(***************************************************************************)
Live == {r \in Reqs : rq[r].pc # "idle"}

\* The upstream header value stored first under the (lower-case) name h.
FirstUpstream(uh, h) ==
  uh[CHOOSE i \in DOMAIN uh :
       /\ Lower(uh[i][1]) = h
       /\ \A k \in DOMAIN uh : Lower(uh[k][1]) = h => i <= k][2]

AllowList ==
  {"content-type", "content-length", "content-range", "accept-ranges",
   "last-modified", "etag", "cache-control", "expires"}

CorsNames ==
  {"Access-Control-Allow-Origin", "Access-Control-Allow-Headers",
   "Access-Control-Allow-Methods", "Access-Control-Expose-Headers"}

\* C1: a request whose url parameter is absent or empty ends with a JSON 400
\* and never creates a connector or a session nor issues a fetch.
C1_MissingUrlIs400 ==
  \A r \in Live :
    LET s == rq[r] IN
    (s.target_url = None \/ s.target_url = "") =>
      /\ s.connectors = 0 /\ s.sessions = 0 /\ ~s.session_open
      /\ s.fetch = <<>> /\ s.responses = 0
      /\ s.pc \in {"start", "done"}
      /\ s.pc = "done" =>
           /\ s.outcome = "returned"
           /\ s.result.kind = "json"
           /\ s.result.status = 400
           /\ DOMAIN s.result.body = {"error"}

C1_Witness ==
  \E r \in Live :
    /\ rq[r].target_url = ""
    /\ rq[r].pc = "done"
    /\ rq[r].result.kind = "json"
    /\ rq[r].result.status = 400

\* C2: once an upstream response with status < 400 has arrived, the outward
\* response carries the upstream status, and its headers are exactly the
\* allow-listed headers the upstream sent (names matched without regard to
\* case, each with the upstream value) together with the four CORS headers.
C2_StatusAndHeaderSet ==
  \A r \in Live :
    LET s == rq[r]
        uh == s.origin.headers
        provided == {h \in AllowList : \E i \in DOMAIN uh : Lower(uh[i][1]) = h}
    IN
    (s.responses >= 1 /\ s.origin.status < 400) =>
      /\ s.resp.status = s.origin.status
      /\ DOMAIN s.resp.headers = provided \cup CorsNames
      /\ \A h \in provided : s.resp.headers[h] = FirstUpstream(uh, h)
      /\ s.resp.headers["Access-Control-Allow-Origin"] = "*"
      /\ s.resp.headers["Access-Control-Allow-Headers"] =
           "Origin, X-Requested-With, Content-Type, Accept, Range, User-Agent"
      /\ s.resp.headers["Access-Control-Allow-Methods"] = "GET, HEAD, OPTIONS"
      /\ s.resp.headers["Access-Control-Expose-Headers"] =
           "Content-Range, Content-Length, Accept-Ranges"
      /\ (s.outcome = "returned" /\ s.result.kind = "stream") =>
           /\ s.result.status = s.origin.status
           /\ s.result.body = s.resp.headers

C2_Witness ==
  \E r \in Live :
    /\ rq[r].prepared = 1
    /\ rq[r].origin.status = 206
    /\ \E i \in DOMAIN rq[r].origin.headers : rq[r].origin.headers[i][1] = "Set-Cookie"
    /\ "etag" \in DOMAIN rq[r].resp.headers
    /\ rq[r].resp.headers["etag"] = "v1"

\* C3: an upstream response with status >= 400 is answered at once with a
\* JSON body naming the upstream status and reason, under the same status;
\* nothing of the upstream body is read or written and no header is flushed.
C3_UpstreamErrorIsJson ==
  \A r \in Live :
    LET s == rq[r] IN
    (s.responses >= 1 /\ s.origin.status >= 400) =>
      /\ s.read_pos = 0 /\ s.chunk = <<>> /\ s.written = <<>>
      /\ s.prepared = 0 /\ s.eof = 0
      /\ s.pc = "done"
      /\ s.outcome = "returned"
      /\ s.result.kind = "json"
      /\ s.result.status = s.origin.status
      /\ s.result.body.error =
           <<"Upstream error:", s.origin.status, Reason(s.origin.status)>>

C3_Witness ==
  \E r \in Live :
    /\ rq[r].responses = 1
    /\ rq[r].origin.status = 400
    /\ rq[r].origin.size > 0
    /\ rq[r].method = "GET"
    /\ rq[r].result.status = 400

\* C4: a HEAD request answered with status < 400 never enters the copy
\* loop and writes no body block, whatever the size of the resource; the
\* allow-listed headers (content-length among them) are on the response and
\* the response it returns has had its headers flushed.
C4_HeadWritesNoBody ==
  \A r \in Live :
    LET s == rq[r]
        uh == s.origin.headers
    IN
    (s.method = "HEAD" /\ s.responses >= 1 /\ s.origin.status < 400) =>
      /\ s.pc \notin {"read", "write"}
      /\ s.read_pos = 0 /\ s.chunk = <<>> /\ s.written = <<>>
      /\ ("content-length" \in DOMAIN s.resp.headers)
           <=> (\E i \in DOMAIN uh : Lower(uh[i][1]) = "content-length")
      /\ ("content-length" \in DOMAIN s.resp.headers) =>
           s.resp.headers["content-length"] = FirstUpstream(uh, "content-length")
      /\ (s.outcome = "returned" /\ s.result.kind = "stream") =>
           s.prepared = 1 /\ s.eof = 1

C4_Witness ==
  \E r \in Live :
    /\ rq[r].method = "HEAD"
    /\ rq[r].origin.size > 0
    /\ rq[r].pc = "done"
    /\ rq[r].result.kind = "stream"
    /\ "content-length" \in DOMAIN rq[r].resp.headers
    /\ rq[r].prepared = 1

\* C5: once the headers have been flushed the handler can only return the
\* response it has started, with the status it was created with.
C5_StartedResponseIsReturned ==
  \A r \in Live :
    LET s == rq[r] IN
    (s.prepared >= 1 /\ s.pc = "done") =>
      /\ s.outcome = "returned"
      /\ s.result.kind = "stream"
      /\ s.result.status = s.resp.status

\* C6: a connection reset, a broken pipe or a cancellation raised inside the
\* copy loop ends the request as a partial success: the started response is
\* returned as it is, the chunk in hand and the end-of-body marker are not
\* written, and nothing is logged as an error.
C6_DisconnectIsPartialSuccess ==
  \A r \in Live :
    LET s == rq[r] IN
    (/\ s.pc = "done"
     /\ s.exc_site \in {"read", "write"}
     /\ s.exc.type \in {"ConnectionResetError", "BrokenPipeError", "CancelledError"}) =>
      /\ s.outcome = "returned"
      /\ s.result.kind = "stream"
      /\ s.result.status = s.origin.status
      /\ s.result.body = s.resp.headers
      /\ s.eof = 0
      /\ s.written \o s.chunk = SubSeq(s.payload, 1, s.read_pos)
      /\ s.exc_site = "write" => s.chunk # <<>>
      /\ \A l \in s.log : l[1] \in {"INFO", "DEBUG"} /\ l[2] # "X"

C6_Witness ==
  \E r \in Live :
    /\ rq[r].pc = "done"
    /\ rq[r].exc_site = "write"
    /\ rq[r].exc.type = "BrokenPipeError"
    /\ rq[r].written # <<>>
    /\ rq[r].result.kind = "stream"

\* C7: a finished request holds neither its upstream response nor its
\* session, however it ended, and once an exception has stopped it no
\* further block is read from the upstream.
C7_Released ==
  \A r \in Live :
    LET s == rq[r] IN
    /\ s.response_open => s.session_open
    /\ s.session_open => s.sessions = 1
    /\ s.pc = "done" => ~s.session_open /\ ~s.response_open

C7_NoReadAfterStop ==
  \A r \in Reqs : rq[r].exc # NoExc => rq'[r].read_pos = rq[r].read_pos

C7_ReleasedOnEveryExit == []C7_Released /\ [][C7_NoReadAfterStop]_vars

C7_Witness ==
  \E r \in Live :
    /\ rq[r].pc = "done"
    /\ rq[r].sessions = 1
    /\ rq[r].exc_site = "write"
    /\ rq[r].exc.type = "ConnectionResetError"
    /\ rq[r].read_pos < Len(rq[r].payload)
    /\ ~rq[r].session_open

\* C8: the headers are flushed at most once and before the first body
\* block; the end-of-body marker is written at most once and nothing after
\* it; a handler that returns its started response has either written the
\* marker or left the copy loop on an exception.
C8_Order ==
  \A r \in Live :
    LET s == rq[r] IN
    /\ s.prepared <= 1 /\ s.eof <= 1
    /\ (s.written # <<>> \/ s.chunk # <<>> \/ s.eof = 1) => s.prepared = 1
    /\ s.eof = 1 => s.pc = "done" /\ s.written = s.payload
    /\ (s.pc = "done" /\ s.result.kind = "stream") =>
         /\ s.prepared = 1
         /\ s.eof = 1 \/ s.exc_site \in {"read", "write"}

C8_OrderStep ==
  \A r \in Reqs :
    /\ rq[r].prepared = 0 => rq'[r].written = <<>> /\ rq'[r].eof = 0
    /\ rq[r].eof = 1 => rq'[r].written = rq[r].written /\ rq'[r].eof = 1
    /\ rq[r].prepared = 1 => rq'[r].prepared = 1

C8_FlushBodyEofOrder == []C8_Order /\ [][C8_OrderStep]_vars

C8_Witness ==
  \E r \in Live :
    /\ rq[r].pc = "done"
    /\ rq[r].prepared = 1
    /\ rq[r].eof = 1
    /\ Len(rq[r].written) >= 2
    /\ rq[r].written = rq[r].payload

\* C9 as stated: with USE_UPSTREAM on, every fetch is handed the configured
\* proxy address and a connector that does not verify certificates, whatever
\* the configured address is.
C9_AlwaysProxiedUnverified ==
  \A r \in Live :
    \A i \in DOMAIN rq[r].fetch :
      USE_UPSTREAM =>
        /\ rq[r].fetch[i].proxy = UPSTREAM_PROXY_URL
        /\ rq[r].fetch[i].ssl = "False"

\* C9 as amended: with USE_UPSTREAM on, every fetch is handed the configured
\* address; verification is off exactly when that address is not empty, and
\* with an empty address the verifying context is used.  In either setting
\* of USE_UPSTREAM a fetch has verification off if and only if it is handed
\* a non-empty proxy address.
C9_ProxiedUnverifiedIfAddress ==
  \A r \in Live :
    \A i \in DOMAIN rq[r].fetch :
      LET f == rq[r].fetch[i] IN
      /\ USE_UPSTREAM =>
           /\ f.proxy = UPSTREAM_PROXY_URL
           /\ UPSTREAM_PROXY_URL # "" => f.ssl = "False"
           /\ UPSTREAM_PROXY_URL = "" => f.ssl = "ssl_context"
      /\ f.ssl \in {"False", "ssl_context"}
      /\ f.ssl = "False" <=> (f.proxy # None /\ f.proxy # "")

C9_Witness ==
  \E r \in Live :
    /\ USE_UPSTREAM
    /\ UPSTREAM_PROXY_URL = DefaultProxyUrl
    /\ rq[r].responses = 1
    /\ Len(rq[r].fetch) = 1
    /\ rq[r].fetch[1].proxy = DefaultProxyUrl
    /\ rq[r].fetch[1].ssl = "False"

\* Whether the text, in words, names the proxy address or its host.
Mentions(text, url) ==
  url # "" /\ \E i \in DOMAIN text : text[i] = url \/ text[i] = HostOf(url)

\* C10: with USE_UPSTREAM off, every fetch is direct (proxy=None) under the
\* verifying TLS context and without a Cache-Control request header, and
\* the proxy address is neither in the outbound request nor in the response
\* the handler returns.
C10_DirectVerified ==
  \A r \in Live :
    LET s == rq[r] IN
    ~USE_UPSTREAM =>
      /\ \A i \in DOMAIN s.fetch :
           LET f == s.fetch[i] IN
           /\ f.proxy = None
           /\ f.ssl = "ssl_context"
           /\ "Cache-Control" \notin DOMAIN f.headers
           /\ ~Mentions(<<f.url>>, UPSTREAM_PROXY_URL)
           /\ \A h \in DOMAIN f.headers : ~Mentions(<<f.headers[h]>>, UPSTREAM_PROXY_URL)
      /\ s.pc # "start" /\ s.fetch = <<>> /\ s.pc # "done" =>
           /\ s.proxy = None /\ s.ssl = "ssl_context"
           /\ "Cache-Control" \notin DOMAIN s.out_headers
      /\ (s.result.kind = "json" /\ "upstreamProxy" \in DOMAIN s.result.body) =>
           /\ s.result.body.upstreamProxy = "disabled"
           /\ ~Mentions(s.result.body.details, UPSTREAM_PROXY_URL)
      /\ s.result.kind = "stream" =>
           \A h \in DOMAIN s.result.body : ~Mentions(<<s.result.body[h]>>, UPSTREAM_PROXY_URL)

C10_Witness ==
  \E r \in Live :
    /\ ~USE_UPSTREAM
    /\ UPSTREAM_PROXY_URL = DefaultProxyUrl
    /\ Len(rq[r].fetch) = 1
    /\ rq[r].exc_site = "fetch"
    /\ rq[r].result.kind = "json"
    /\ rq[r].result.status = 500
    /\ rq[r].result.body.upstreamProxy = "disabled"

\* The text of e names one of the three disconnection conditions.
DisconnectText(e) ==
  \/ Contains(e, <<"closing", "transport">>)
  \/ Contains(e, <<"connection", "reset">>)
  \/ Contains(e, <<"broken", "pipe">>)

\* C11: a request makes at most one connector, one session and one fetch
\* attempt; a failed fetch ends the request without a second attempt, and
\* with USE_UPSTREAM on no fetch is ever made without the proxy address.
C11_OneAttempt ==
  \A r \in Live :
    LET s == rq[r] IN
    /\ Len(s.fetch) <= 1 /\ s.sessions <= 1 /\ s.connectors <= 1
    /\ s.exc_site = "fetch" => s.pc = "done" /\ s.responses = 0 /\ Len(s.fetch) = 1
    /\ USE_UPSTREAM =>
         \A i \in DOMAIN s.fetch : s.fetch[i].proxy = UPSTREAM_PROXY_URL

C11_NoRetryStep ==
  \A r \in Reqs : rq[r].exc # NoExc => rq'[r].fetch = rq[r].fetch

C11_SingleAttemptNoFallback == []C11_OneAttempt /\ [][C11_NoRetryStep]_vars

C11_Witness ==
  \E r \in Live :
    /\ USE_UPSTREAM
    /\ UPSTREAM_PROXY_URL = DefaultProxyUrl
    /\ rq[r].pc = "done"
    /\ rq[r].exc_site = "fetch"
    /\ rq[r].exc.type = "ClientConnectorError"
    /\ Len(rq[r].fetch) = 1
    /\ rq[r].fetch[1].proxy = DefaultProxyUrl
    /\ rq[r].result.status = 500

\* C12: a failure of the fetch or of resp.prepare that is an Exception and
\* whose text names no disconnection condition ends the request with a
\* JSON 500 whose body carries the error text and an upstreamProxy field:
\* the configured address when USE_UPSTREAM is on, "disabled" otherwise.
C12_PreHeaderFailureIs500 ==
  \A r \in Live :
    LET s == rq[r] IN
    (/\ s.pc = "done"
     /\ s.exc_site \in {"fetch", "prepare"}
     /\ s.exc.type # "CancelledError"
     /\ ~DisconnectText(s.exc)) =>
      /\ s.prepared = 0
      /\ s.outcome = "returned"
      /\ s.result.kind = "json"
      /\ s.result.status = 500
      /\ DOMAIN s.result.body = {"error", "details", "upstreamProxy"}
      /\ s.result.body.details = s.exc.text
      /\ USE_UPSTREAM => s.result.body.upstreamProxy = UPSTREAM_PROXY_URL
      /\ ~USE_UPSTREAM => s.result.body.upstreamProxy = "disabled"

C12_Witness ==
  \E r \in Live :
    /\ USE_UPSTREAM
    /\ UPSTREAM_PROXY_URL = DefaultProxyUrl
    /\ rq[r].pc = "done"
    /\ rq[r].exc_site = "fetch"
    /\ rq[r].exc.type = "TimeoutError"
    /\ rq[r].result.kind = "json"
    /\ rq[r].result.body.upstreamProxy = DefaultProxyUrl

\* C13: a failure before the header flush whose text names a disconnection
\* condition ends the request with an empty 499 and debug logging only, and
\* a 499 is returned only while the headers have not been flushed.
C13_499OnlyBeforeFlush ==
  \A r \in Live :
    LET s == rq[r] IN
    s.pc = "done" =>
      /\ (/\ s.exc_site \in {"fetch", "prepare"}
          /\ s.exc.type # "CancelledError"
          /\ DisconnectText(s.exc)) =>
           /\ s.outcome = "returned"
           /\ s.result.kind = "empty"
           /\ s.result.status = 499
           /\ \A l \in s.log : l[2] # "X" /\ l[1] \in {"INFO", "DEBUG"}
           /\ \E l \in s.log : l[1] = "DEBUG"
      /\ (s.result.kind = "empty" /\ s.result.status = 499) => s.prepared = 0

\* Two requests that agree in method, url, caller headers and in what the
\* far end answers (the configuration is process-wide).
SameRequest(a, b) ==
  /\ a.method = b.method
  /\ a.target_url = b.target_url
  /\ a.headers = b.headers
  /\ a.origin = b.origin

C15_TimeoutOnlyInFetch ==
  \A r \in Live :
    rq[r].exc.type = "TimeoutError" =>
      rq[r].exc_site = "fetch" /\ rq[r].prepared = 0

\* An exception of the copy loop was swallowed there: the started response
\* is returned and the only trace is a debug line of the loop.
Swallowed(s) ==
  /\ s.outcome = "returned"
  /\ s.result.kind = "stream"
  /\ \A l \in s.log : l[2] # "X" /\ l[3] # "Connection closed during proxy operation"

\* It reached the except clause of line 173, which answered 499 or 500.
ReachedOuter(s) ==
  /\ s.outcome = "returned"
  /\ s.result.kind \in {"empty", "json"}
  /\ s.result.status \in {499, 500}

\* C16: in the copy loop, an error of a disconnection class (by
\* type or by text) is swallowed, and any other exception is re-raised to
\* the outer handler.
C16_SwallowedIffDisconnectClass ==
  \A r \in Live :
    LET s == rq[r]
        dc == s.exc.type \in {"ConnectionResetError", "BrokenPipeError"} \/ DisconnectText(s.exc)
    IN
    (s.pc = "done" /\ s.exc_site \in {"read", "write"} /\ s.exc.type # "CancelledError") =>
      /\ dc => Swallowed(s)
      /\ ~dc => ReachedOuter(s)

IsPrefix(a, b) == Len(a) <= Len(b) /\ a = SubSeq(b, 1, Len(a))

\* The body the far end holds for r, whatever the handler has read of it.
UpstreamBody(r) == Body(rq[r].origin.size)

CopiedGets == {r \in Live : rq[r].method = "GET" /\ rq[r].origin.status < 400}

C17_Written ==
  \A r \in CopiedGets :
    LET s == rq[r] IN
    /\ IsPrefix(s.written, UpstreamBody(r))
    /\ Len(s.chunk) * BlockSize <= ChunkSize
    /\ s.eof \in {0, 1}
    /\ s.eof = 1 => s.written = UpstreamBody(r)
    /\ (s.pc = "done" /\ s.prepared = 1 /\ s.exc = NoExc) =>
         (s.written = UpstreamBody(r) /\ s.eof = 1)
    /\ s.exc # NoExc => s.eof = 0

C17_WriteStep ==
  \A r \in CopiedGets :
    /\ rq'[r].written # rq[r].written =>
         \E n \in 1..ChunkBlocks :
           /\ n * BlockSize <= ChunkSize
           /\ Len(rq'[r].written) = Len(rq[r].written) + n
           /\ IsPrefix(rq[r].written, rq'[r].written)
           /\ rq[r].eof = 0
    /\ rq'[r].eof # rq[r].eof => rq'[r].written = rq[r].written

\* C17: for a GET with upstream status below 400, what is written to the
\* caller is always a prefix of the upstream body, in writes of at most
\* 8192 bytes; an uninterrupted copy writes the whole body followed by
\* exactly one end-of-body marker, and an interrupted one writes no marker.
C17_BodyCopiedInOrder == []C17_Written /\ [][C17_WriteStep]_vars

C17_Witness ==
  \E r \in CopiedGets :
    /\ rq[r].pc = "done"
    /\ rq[r].exc = NoExc
    /\ Len(rq[r].written) >= 3
    /\ rq[r].written = UpstreamBody(r)
    /\ rq[r].eof = 1

\* The caller sent a header of this (lower-case) name, and the value of the
\* first one sent.
CallerSent(ch, lname) == \E i \in DOMAIN ch : Lower(ch[i][1]) = lname
CallerValue(ch, lname) ==
  LET first == CHOOSE i \in DOMAIN ch :
                 /\ Lower(ch[i][1]) = lname
                 /\ \A j \in 1..(i - 1) : Lower(ch[j][1]) # lname
  IN ch[first][2]

C18_HeadersOf(r, oh) ==
  LET ch == rq[r].headers IN
  /\ DOMAIN oh \subseteq {"User-Agent", "Cache-Control", "Range", "Referer"}
  /\ "User-Agent" \in DOMAIN oh
  /\ oh["User-Agent"] = IF CallerSent(ch, "user-agent")
                        THEN CallerValue(ch, "user-agent")
                        ELSE "Mozilla/5.0 (compatible; HTTPProxy/1.0)"
  /\ "Cache-Control" \in DOMAIN oh <=> USE_UPSTREAM
  /\ "Cache-Control" \in DOMAIN oh => oh["Cache-Control"] = "max-age=3600"
  /\ "Range" \in DOMAIN oh <=> CallerSent(ch, "range")
  /\ "Range" \in DOMAIN oh => oh["Range"] = CallerValue(ch, "range")
  /\ "Referer" \in DOMAIN oh <=> CallerSent(ch, "referer")
  /\ "Referer" \in DOMAIN oh => oh["Referer"] = CallerValue(ch, "referer")

\* C18: the outbound header set the handler builds, and hands to the fetch,
\* is exactly User-Agent (the caller's or the default), Cache-Control:
\* max-age=3600 iff USE_UPSTREAM, Range iff the caller sent it, Referer iff
\* the caller sent it, each with the caller's value; nothing else of the
\* caller's is forwarded, and it is a function of this request alone.
C18_OutboundHeaderSet ==
  \A r \in Live :
    /\ rq[r].sessions > 0 => C18_HeadersOf(r, rq[r].out_headers)
    /\ \A i \in DOMAIN rq[r].fetch : C18_HeadersOf(r, rq[r].fetch[i].headers)

C18_Witness ==
  \E r \in Live :
    /\ CallerSent(rq[r].headers, "cookie")
    /\ CallerSent(rq[r].headers, "referer")
    /\ ~CallerSent(rq[r].headers, "user-agent")
    /\ USE_UPSTREAM
    /\ Len(rq[r].fetch) = 1
    /\ DOMAIN rq[r].fetch[1].headers = {"User-Agent", "Cache-Control", "Referer"}

\* C19 as stated: no exception leaves proxy_handler; every request ends
\* with a returned response.
C19_NoExceptionEscapes ==
  \A r \in Live :
    rq[r].pc = "done" => (rq[r].outcome = "returned" /\ rq[r].result.kind # "none")

C19_Ends ==
  \A r \in Live :
    LET s == rq[r] IN
    s.pc = "done" =>
      /\ s.outcome \in {"returned", "raised"}
      /\ s.outcome = "raised" <=>
           (s.exc.type = "CancelledError" /\ s.exc_site \notin {"read", "write"})
      /\ s.outcome = "returned" <=> s.result.kind # "none"
      /\ (s.exc_site = "setup" /\ s.exc.type # "CancelledError") =>
           /\ s.result.kind = "json"
           /\ s.result.status = 500
           /\ s.result.body = [error |-> "Internal server error"]
           /\ <<"INFO", "X", "Handler error", s.exc.text>> \in s.log

\* A response, once returned, is the request's only one.
C19_OneResponseStep ==
  \A r \in Reqs :
    rq[r].pc = "done" => (rq'[r].result = rq[r].result /\ rq'[r].outcome = rq[r].outcome)

\* C19 as amended: every failure of class Exception ends the request with
\* exactly one returned response; the only exception that leaves
\* proxy_handler is a CancelledError raised outside the copy loop (in the
\* fetch, in prepare or in write_eof). A fault raised outside the fetch
\* block yields a 500 whose body is the generic message alone, its detail
\* only in the log.
C19_OnlyCancellationEscapes == []C19_Ends /\ [][C19_OneResponseStep]_vars

C19_Witness ==
  \E r \in Live :
    /\ rq[r].pc = "done"
    /\ rq[r].exc_site = "setup"
    /\ rq[r].exc.type = "RuntimeError"
    /\ rq[r].result.status = 500
    /\ rq[r].outcome = "returned"

\* What a finished request shows outward, as a function of its own method,
\* url, upstream answer and of the failure its own awaits met.
C20_OwnOutcome(s) ==
  LET e == s.exc
      uh == s.origin.headers
      provided == {h \in AllowList : \E i \in DOMAIN uh : Lower(uh[i][1]) = h}
      whole == IF s.method = "HEAD" THEN <<>> ELSE Body(s.origin.size)
      ownStream ==
        /\ s.outcome = "returned"
        /\ s.result.kind = "stream"
        /\ s.result.status = s.origin.status
        /\ DOMAIN s.result.body = provided \cup CorsNames
        /\ \A h \in provided : s.result.body[h] = FirstUpstream(uh, h)
      ownFailure ==
        IF e.type = "CancelledError" THEN s.outcome = "raised" /\ s.result.kind = "none"
        ELSE IF DisconnectText(e) THEN s.result.kind = "empty" /\ s.result.status = 499
        ELSE /\ s.result.kind = "json" /\ s.result.status = 500
             /\ s.result.body.details = e.text
  IN
  /\ s.target_url \in {None, ""} => (s.result.kind = "json" /\ s.result.status = 400)
  /\ s.exc_site = "setup" => (s.result.kind = "json" /\ s.result.status = 500)
  /\ (s.target_url \notin {None, ""} /\ e = NoExc /\ s.origin.status >= 400) =>
       (s.result.kind = "json" /\ s.result.status = s.origin.status /\ s.written = <<>>)
  /\ (s.target_url \notin {None, ""} /\ e = NoExc /\ s.origin.status < 400) =>
       (ownStream /\ s.written = whole /\ s.eof = 1)
  /\ s.exc_site \in {"fetch", "prepare", "eof"} => ownFailure
  /\ s.exc_site \in {"read", "write"} =>
       /\ s.result.kind = "stream" => ownStream
       /\ s.result.kind # "stream" => ownFailure
       /\ Len(s.written) <= Len(whole) /\ s.written = SubSeq(whole, 1, Len(s.written))

C20_Own ==
  \A r \in Live :
    /\ rq[r].pc = "done" => C20_OwnOutcome(rq[r])
    /\ rq[r].connectors <= 1 /\ rq[r].sessions <= 1 /\ rq[r].responses <= 1
    /\ \A i \in DOMAIN rq[r].fetch :
         /\ rq[r].fetch[i].url = unquote(rq[r].target_url)
         /\ rq[r].fetch[i].headers = rq[r].out_headers

C20_Step ==
  /\ USE_UPSTREAM' = USE_UPSTREAM
  /\ UPSTREAM_PROXY_URL' = UPSTREAM_PROXY_URL
  /\ \A r1 \in Reqs, r2 \in Reqs :
       (rq'[r1] # rq[r1] /\ rq'[r2] # rq[r2]) => r1 = r2
  /\ \A r \in Reqs :
       /\ rq'[r].method = rq[r].method
       /\ rq'[r].target_url = rq[r].target_url
       /\ rq'[r].headers = rq[r].headers
       /\ rq'[r].origin = rq[r].origin

\* C20: with two requests in flight, no step changes the process-wide
\* configuration or more than one request's state; each request has its
\* own connector, session, outbound headers and upstream response, and what
\* it shows outward (status, headers, body written) is determined by its
\* own inputs and its own upstream's behaviour, whatever the other request
\* does and however the two interleave.
C20_RequestsIndependent == []C20_Own /\ [][C20_Step]_vars

C20_Witness ==
  /\ rq[1].pc = "done" /\ rq[2].pc = "done"
  /\ rq[1].origin # rq[2].origin
  /\ rq[1].result.kind = "stream" /\ rq[2].result.kind = "stream"
  /\ rq[1].result.status = 200 /\ rq[2].result.status = 206
  /\ rq[2].written = Body(2)
  /\ DOMAIN rq[1].result.body # DOMAIN rq[2].result.body

====
